---- MODULE Spec2Model ----
(***************************************************************************)
(* A model of the receipt text parser (src/src/lib/parse.ts) and of the    *)
(* page that calls it after the OCR of a file (src/src/app/page.tsx).      *)
(*                                                                         *)
(* A call of parseReceiptText is followed statement by statement: the      *)
(* lines and the record are created, the date loop and the classification  *)
(* loop each take one line per step, the fallback total is set and the     *)
(* record returned.  The texts are made of ASCII characters.               *)
(*                                                                         *)
(* Strings are sequences of one-character strings, offsets are 0-based as  *)
(* in JavaScript (the character at offset p of s is s[p+1]).  Amounts are  *)
(* integers counting cents: every amount the parser produces comes out of  *)
(* Number(n.toFixed(2)), and within the bounds of this model the sums of   *)
(* such values are far below the magnitude where IEEE doubles could round  *)
(* a sum of cents to a different cent.                                     *)
(*                                                                         *)
(* An optional value (undefined / null in the source) is <<>> when absent  *)
(* and <<v>> when present.                                                 *)
(***************************************************************************)
EXTENDS Integers, Sequences, FiniteSets, TLC

VARIABLES
    text,              \* the argument of the running call
    lines,             \* const lines: trimmed, non-empty lines of text
    result,            \* const result: the ParsedReceipt being built
    seenItemsSection,  \* let seenItemsSection
    pc,                \* position of the call: "start", "date", "scan", "fallback", "done"
    i,                 \* offset in lines of the next line of the running for-of loop
    visited,           \* history: the lines the classification loop has visited
    moneyLastIndex,    \* moneyRegex.lastIndex, the only module-level mutable state
    prior,             \* history: the text and the record of an earlier call
    file,              \* Home: const [file, setFile]
    ocrProgress,       \* Home: const [ocrProgress, setOcrProgress], its stage
    rawText,           \* Home: const [rawText, setRawText]
    parsed,            \* Home: const [parsed, setParsed]
    selectAll,         \* Home: const [selectAll, setSelectAll]
    pdfjsLib,          \* window.pdfjsLib is there
    runs,              \* the calls of handleProcess, in the order they began
    parsedOf           \* history: the file of the call that set parsed

\* the state of a call of parseReceiptText
parser == <<text, lines, result, seenItemsSection, pc, i, visited, moneyLastIndex, prior>>
\* the state of the page
ui == <<file, ocrProgress, rawText, parsed, selectAll, pdfjsLib, runs, parsedOf>>

vars == <<parser, ui>>

----------------------------------------------------------------------------
(* Optional values *)

None == <<>>
Some(v) == <<v>>
IsSome(o) == o # <<>>
Get(o) == o[1]

\* the page as useState creates it, no call of handleProcess begun
HomeInit ==
    /\ file = None
    /\ ocrProgress = None
    /\ rawText = <<>>
    /\ parsed = None
    /\ selectAll = FALSE
    /\ pdfjsLib = FALSE
    /\ runs = <<>>
    /\ parsedOf = None

----------------------------------------------------------------------------
(* Characters *)

DigitSeq == <<"0","1","2","3","4","5","6","7","8","9">>
UpperSeq == <<"A","B","C","D","E","F","G","H","I","J","K","L","M",
              "N","O","P","Q","R","S","T","U","V","W","X","Y","Z">>
LowerSeq == <<"a","b","c","d","e","f","g","h","i","j","k","l","m",
              "n","o","p","q","r","s","t","u","v","w","x","y","z">>

Range(s) == {s[k] : k \in DOMAIN s}

IsDigit(c) == c \in Range(DigitSeq)
IsUpper(c) == c \in Range(UpperSeq)
IsLower(c) == c \in Range(LowerSeq)
IsLetter(c) == IsUpper(c) \/ IsLower(c)
\* \w of a JavaScript regular expression
IsWordChar(c) == IsLetter(c) \/ IsDigit(c) \/ c = "_"
\* \s of a JavaScript regular expression, and the characters String.trim removes
IsSpace(c) == c \in {" ", "\t", "\r", "\n"}

DigitVal(c) == (CHOOSE k \in DOMAIN DigitSeq : DigitSeq[k] = c) - 1
ToLowerChar(c) == IF IsUpper(c) THEN LowerSeq[CHOOSE k \in DOMAIN UpperSeq : UpperSeq[k] = c] ELSE c

Min(a, b) == IF a < b THEN a ELSE b

----------------------------------------------------------------------------
(* Strings, with JavaScript's 0-based offsets *)

\* s[p], "" past either end
CharAt(s, p) == IF p >= 0 /\ p < Len(s) THEN s[p + 1] ELSE ""
\* s.slice(a, b)
Slice(s, a, b) == SubSeq(s, a + 1, b)
\* w occurs in s at offset p
StartsAt(s, w, p) == /\ p >= 0
                     /\ p + Len(w) <= Len(s)
                     /\ \A k \in 1..Len(w) : s[p + k] = w[k]
\* s.toLowerCase()
toLowerCase(s) == [k \in 1..Len(s) |-> ToLowerChar(s[k])]
\* \b at offset p of s
WordBoundary(s, p) == IsWordChar(CharAt(s, p - 1)) # IsWordChar(CharAt(s, p))
\* the length of the longest run of white space (\s*) starting at offset p
SpaceRun(s, p) ==
    IF p >= Len(s) THEN 0
    ELSE CHOOSE n \in 0..(Len(s) - p) :
            /\ \A k \in 0..(n - 1) : IsSpace(CharAt(s, p + k))
            /\ ~IsSpace(CharAt(s, p + n))
\* the length of the longest run of digits (\d*) starting at offset p
DigitRun(s, p) ==
    IF p >= Len(s) THEN 0
    ELSE CHOOSE n \in 0..(Len(s) - p) :
            /\ \A k \in 0..(n - 1) : IsDigit(CharAt(s, p + k))
            /\ ~IsDigit(CharAt(s, p + n))
\* the length of the longest run of letters ([A-Za-z]*) starting at offset p
LetterRun(s, p) ==
    IF p >= Len(s) THEN 0
    ELSE CHOOSE n \in 0..(Len(s) - p) :
            /\ \A k \in 0..(n - 1) : IsLetter(CharAt(s, p + k))
            /\ ~IsLetter(CharAt(s, p + n))

\* s.trim()
trim(s) ==
    LET a == SpaceRun(s, 0)
        b == IF a = Len(s) THEN a
             ELSE CHOOSE e \in (a + 1)..Len(s) :
                     /\ ~IsSpace(s[e])
                     /\ \A k \in (e + 1)..Len(s) : IsSpace(s[k])
    IN  Slice(s, a, b)

\* s.lastIndexOf(w), -1 when w does not occur
lastIndexOf(s, w) ==
    IF \E p \in 0..Len(s) : StartsAt(s, w, p)
    THEN CHOOSE p \in 0..Len(s) :
            /\ StartsAt(s, w, p)
            /\ \A q \in (p + 1)..Len(s) : ~StartsAt(s, w, q)
    ELSE -1

\* s.replace(/[\-\s]+$/, ""): the trailing run of hyphens and white space removed
StripTrailingDashes(s) ==
    LET keep == IF \A k \in 1..Len(s) : (s[k] = "-" \/ IsSpace(s[k])) THEN 0
                ELSE CHOOSE e \in 1..Len(s) :
                        /\ ~(s[e] = "-" \/ IsSpace(s[e]))
                        /\ \A k \in (e + 1)..Len(s) : (s[k] = "-" \/ IsSpace(s[k]))
    IN  Slice(s, 0, keep)

\* text.split(/\r?\n/): the pieces between line feeds, a carriage return just
\* before a line feed being part of the separator
RECURSIVE splitLines(_)
splitLines(s) ==
    IF \E k \in 1..Len(s) : s[k] = "\n"
    THEN LET n == CHOOSE k \in 1..Len(s) : s[k] = "\n" /\ \A j \in 1..(k - 1) : s[j] # "\n"
             e == IF n > 1 /\ s[n - 1] = "\r" THEN n - 2 ELSE n - 1
         IN  <<SubSeq(s, 1, e)>> \o splitLines(SubSeq(s, n + 1, Len(s)))
    ELSE <<s>>

\* .map((l) => l.trim()).filter((l) => l.length > 0)
RECURSIVE trimAndFilter(_)
trimAndFilter(ls) ==
    IF ls = <<>> THEN <<>>
    ELSE LET t == trim(Head(ls))
         IN  (IF Len(t) > 0 THEN <<t>> ELSE <<>>) \o trimAndFilter(Tail(ls))

----------------------------------------------------------------------------
(* The keyword tests of the classification loop, each applied to the       *)
(* lower-cased line                                                        *)

\* /\bw\b/.test(s) for a word w of letters
HasWord(s, w) ==
    \E p \in 0..Len(s) :
        /\ StartsAt(s, w, p)
        /\ WordBoundary(s, p)
        /\ WordBoundary(s, p + Len(w))

\* /\btotal\b/.test(lower)
isTotalLike(lower) == HasWord(lower, <<"t","o","t","a","l">>)

\* /\bsub\s*-?\s*total\b/.test(lower)
SubDashTotal(lower) ==
    \E p \in 0..Len(lower) :
        /\ StartsAt(lower, <<"s","u","b">>, p)
        /\ WordBoundary(lower, p)
        /\ \E a \in 0..SpaceRun(lower, p + 3) :
           \E h \in {0, 1} :
              /\ (h = 1 => CharAt(lower, p + 3 + a) = "-")
              /\ \E b \in 0..SpaceRun(lower, p + 3 + a + h) :
                    LET q == p + 3 + a + h + b
                    IN  /\ StartsAt(lower, <<"t","o","t","a","l">>, q)
                        /\ WordBoundary(lower, q + 5)

\* /\bsub\s*-?\s*total\b/.test(lower) || /\bsubtotal\b/.test(lower)
isSubTotalLike(lower) ==
    SubDashTotal(lower) \/ HasWord(lower, <<"s","u","b","t","o","t","a","l">>)

\* /\b(tax|vat|sales tax)\b/.test(lower)
isTaxLike(lower) ==
    \/ HasWord(lower, <<"t","a","x">>)
    \/ HasWord(lower, <<"v","a","t">>)
    \/ HasWord(lower, <<"s","a","l","e","s"," ","t","a","x">>)

\* /\bchange\b/.test(lower)
hasChange(lower) == HasWord(lower, <<"c","h","a","n","g","e">>)
\* /\bcash\b/.test(lower)
hasCash(lower) == HasWord(lower, <<"c","a","s","h">>)
\* /\d/.test(line)
hasDigit(line) == \E k \in 1..Len(line) : IsDigit(line[k])
\* /[a-z]/i.test(line)
hasLetter(line) == \E k \in 1..Len(line) : IsLetter(line[k])

----------------------------------------------------------------------------
(* moneyRegex, a global expression of three parts: an optional "$" with    *)
(* white space after it, a group of two alternatives (one to three digits  *)
(* then any number of ",ddd", or else a run of digits), an optional ".dd"  *)

\* (?:,\d{3})* from offset q: the offset after the last ",ddd" group taken
RECURSIVE CommaGroups(_, _)
CommaGroups(s, q) ==
    IF /\ CharAt(s, q) = ","
       /\ IsDigit(CharAt(s, q + 1))
       /\ IsDigit(CharAt(s, q + 2))
       /\ IsDigit(CharAt(s, q + 3))
    THEN CommaGroups(s, q + 4)
    ELSE q

\* The offset at which a match of moneyRegex starting at offset p ends, -1 when
\* none starts there.  The optional "$" and white space are taken when a digit
\* follows them.  Of the group's two alternatives the first, \d{1,3}(?:,\d{3})*,
\* is tried first and takes at most three digits; as everything after the group
\* may match the empty string the match then succeeds, so the second
\* alternative, \d+, is never tried.
MoneyMatchEnd(s, p) ==
    LET q  == IF CharAt(s, p) = "$" THEN p + 1 + SpaceRun(s, p + 1) ELSE p
        d  == DigitRun(s, q)
        q1 == CommaGroups(s, q + Min(d, 3))
    IN  IF d = 0 THEN -1
        ELSE IF /\ CharAt(s, q1) = "."
                /\ IsDigit(CharAt(s, q1 + 1))
                /\ IsDigit(CharAt(s, q1 + 2))
             THEN q1 + 3
             ELSE q1

\* The matches of moneyRegex in s from offset p on, in order, each as the
\* offsets [from, to) it covers: a match is looked for at the leftmost offset,
\* and the next one from where it ends.
RECURSIVE MatchesFrom(_, _)
MatchesFrom(s, p) ==
    IF \E q \in p..(Len(s) - 1) : MoneyMatchEnd(s, q) # -1
    THEN LET q == CHOOSE q \in p..(Len(s) - 1) :
                     /\ MoneyMatchEnd(s, q) # -1
                     /\ \A r \in p..(q - 1) : MoneyMatchEnd(s, r) = -1
             e == MoneyMatchEnd(s, q)
         IN  <<[from |-> q, to |-> e]>> \o MatchesFrom(s, e)
    ELSE <<>>

\* [...line.matchAll(moneyRegex)].map((m) => m[0]), with moneyRegex.lastIndex
\* = lastIndex: matchAll works on a copy of the expression that starts at the
\* lastIndex of the original
matchAllMoney(line, lastIndex) ==
    LET ms == MatchesFrom(line, lastIndex)
    IN  [k \in 1..Len(ms) |-> Slice(line, ms[k].from, ms[k].to)]

\* variant: moneyRegex.lastIndex as a moneyRegex.test(line) would leave it, at
\* the end of the first match or at 0 when there is none
lastIndexAfterTest(line, lastIndex) ==
    LET ms == MatchesFrom(line, lastIndex)
    IN  IF Len(ms) > 0 THEN ms[1].to ELSE 0

\* moneyRegex.lastIndex after line.matchAll(moneyRegex) has been consumed: the
\* copy is advanced, the original keeps its lastIndex
lastIndexAfterMatchAll(line, lastIndex) == lastIndex

----------------------------------------------------------------------------
(* normalizeMoney *)

\* the value of a string of digits, 0 for the empty string
RECURSIVE DigitsValue(_)
DigitsValue(ds) ==
    IF ds = <<>> THEN 0
    ELSE 10 * DigitsValue(SubSeq(ds, 1, Len(ds) - 1)) + DigitVal(ds[Len(ds)])

\* Number(Number.parseFloat(cleaned).toFixed(2)) in cents, None for NaN.
\* parseFloat reads the longest prefix digits [. digits]; with one or two
\* fraction digits the cents are exact, with more (no token of moneyRegex has
\* more) the third digit rounds the cents.
ParseCents(cleaned) ==
    LET n1   == DigitRun(cleaned, 0)
        dot  == CharAt(cleaned, n1) = "."
        n2   == IF dot THEN DigitRun(cleaned, n1 + 1) ELSE 0
        frac == Slice(cleaned, n1 + 1, n1 + 1 + n2)
        f2   == IF n2 = 0 THEN 0
                ELSE IF n2 = 1 THEN 10 * DigitVal(frac[1])
                ELSE 10 * DigitVal(frac[1]) + DigitVal(frac[2])
                     + (IF n2 > 2 /\ DigitVal(frac[3]) >= 5 THEN 1 ELSE 0)
    IN  IF n1 = 0 /\ n2 = 0 THEN None
        ELSE Some(100 * DigitsValue(Slice(cleaned, 0, n1)) + f2)

normalizeMoney(s) ==
    LET cleaned == SelectSeq(s, LAMBDA c : IsDigit(c) \/ c = ".")
    IN  IF cleaned = <<>> THEN None ELSE ParseCents(cleaned)

----------------------------------------------------------------------------
(* dateRegex: a word boundary or the start, then the capture, one of three *)
(* alternatives tried in order, then a word boundary or the end.  A        *)
(* quantifier takes as much as it can and gives back only when what        *)
(* follows fails, so among the ways an alternative matches at an offset    *)
(* the one chosen has the longest first part, then the longest second...   *)

IsDateSep(c) == c \in {"/", "-"}
AllDigits(s, p, n) == \A k \in 0..(n - 1) : IsDigit(CharAt(s, p + k))
DateStartOK(s, p) == WordBoundary(s, p) \/ p = 0
DateEndOK(s, e) == WordBoundary(s, e) \/ e = Len(s)

\* the end of the preferred candidate of a set of [w: preference, e: end], -1 for none
Preferred(cands) ==
    IF cands = {} THEN -1
    ELSE (CHOOSE c \in cands : \A d \in cands : d.w <= c.w).e

\* \d{1,2}[\/\-]\d{1,2}[\/\-]\d{2,4} at offset p
DateNumericEnd(s, p) ==
    Preferred({ [w |-> 100 * n1 + 10 * n2 + n3, e |-> p + n1 + 1 + n2 + 1 + n3] :
                  <<n1, n2, n3>> \in
                     { t \in (1..2) \X (1..2) \X (2..4) :
                         /\ AllDigits(s, p, t[1])
                         /\ IsDateSep(CharAt(s, p + t[1]))
                         /\ AllDigits(s, p + t[1] + 1, t[2])
                         /\ IsDateSep(CharAt(s, p + t[1] + 1 + t[2]))
                         /\ AllDigits(s, p + t[1] + 1 + t[2] + 1, t[3])
                         /\ DateEndOK(s, p + t[1] + 1 + t[2] + 1 + t[3]) } })

\* \d{4}[\/\-]\d{1,2}[\/\-]\d{1,2} at offset p
DateYearFirstEnd(s, p) ==
    Preferred({ [w |-> 10 * n2 + n3, e |-> p + 4 + 1 + n2 + 1 + n3] :
                  <<n2, n3>> \in
                     { t \in (1..2) \X (1..2) :
                         /\ AllDigits(s, p, 4)
                         /\ IsDateSep(CharAt(s, p + 4))
                         /\ AllDigits(s, p + 5, t[1])
                         /\ IsDateSep(CharAt(s, p + 5 + t[1]))
                         /\ AllDigits(s, p + 5 + t[1] + 1, t[2])
                         /\ DateEndOK(s, p + 5 + t[1] + 1 + t[2]) } })

\* [A-Za-z]{3,9}\s+\d{1,2},\s*\d{2,4} at offset p: nl letters, ns white space,
\* n1 digits, a comma, nb white space, n3 digits
DateMonthNameEnd(s, p) ==
    LET K == Len(s) + 1
    IN  Preferred(UNION UNION UNION UNION
          { { { { { [w |-> (((nl * K + ns) * K + n1) * K + nb) * K + n3,
                     e |-> p + nl + ns + n1 + 1 + nb + n3] :
                    n3 \in { n \in 2..4 :
                               /\ AllDigits(s, p + nl + ns + n1 + 1 + nb, n)
                               /\ DateEndOK(s, p + nl + ns + n1 + 1 + nb + n) } } :
                  nb \in 0..SpaceRun(s, p + nl + ns + n1 + 1) } :
                n1 \in { n \in 1..2 : /\ AllDigits(s, p + nl + ns, n)
                                      /\ CharAt(s, p + nl + ns + n) = "," } } :
              ns \in 1..SpaceRun(s, p + nl) } :
            nl \in 3..Min(9, LetterRun(s, p)) })

\* the end of the match of dateRegex that starts at offset p, -1 for none
DateMatchEnd(s, p) ==
    IF ~DateStartOK(s, p) THEN -1
    ELSE IF DateNumericEnd(s, p) # -1 THEN DateNumericEnd(s, p)
    ELSE IF DateYearFirstEnd(s, p) # -1 THEN DateYearFirstEnd(s, p)
    ELSE DateMonthNameEnd(s, p)

\* line.match(dateRegex): m[1] of the leftmost match, None when m is null
matchDate(line) ==
    IF \E p \in 0..Len(line) : DateMatchEnd(line, p) # -1
    THEN LET p == CHOOSE p \in 0..Len(line) :
                     /\ DateMatchEnd(line, p) # -1
                     /\ \A q \in 0..(p - 1) : DateMatchEnd(line, q) = -1
         IN  Some(Slice(line, p, DateMatchEnd(line, p)))
    ELSE None

----------------------------------------------------------------------------
(* parseReceiptText: the pieces of the classification loop *)

\* lastAmount: normalizeMoney of the last element of amounts, null for none
lastAmountOf(amounts) ==
    IF Len(amounts) > 0 THEN normalizeMoney(amounts[Len(amounts)]) ELSE None

\* variant: the total test first
ClassifyTotalFirst(sub, tax, tot, hasAmount) ==
    IF tot /\ hasAmount THEN "total"
    ELSE IF sub /\ hasAmount THEN "subtotal"
    ELSE IF tax /\ hasAmount THEN "tax"
    ELSE "none"

\* The chain of the three keyword tests, each taken only with a candidate
\* amount and each ending the iteration: the summary field the line sets,
\* "none" when the line goes on to the item test.
Classify(sub, tax, tot, hasAmount) ==
    IF sub /\ hasAmount THEN "subtotal"
    ELSE IF tax /\ hasAmount THEN "tax"
    ELSE IF tot /\ hasAmount THEN "total"
    ELSE "none"

\* variant: without the two tender tests
isItemLineNoTender(line, lower, lastAmount) ==
    /\ hasDigit(line)
    /\ IsSome(lastAmount)

\* the condition of the item branch
isItemLine(line, lower, lastAmount) ==
    /\ hasDigit(line)
    /\ IsSome(lastAmount)
    /\ ~hasChange(lower)
    /\ ~hasCash(lower)

\* description: the line without its last amount token, unless the token's
\* last occurrence is at the start of the line
itemDescription(line, amounts) ==
    IF Len(amounts) > 0
    THEN LET amtToken == amounts[Len(amounts)]
             idx      == lastIndexOf(line, amtToken)
         IN  IF idx > 0 THEN StripTrailingDashes(trim(Slice(line, 0, idx))) ELSE line
    ELSE line

\* the condition of the else-if branch
isContinuation(seen, line, amounts) ==
    /\ seen
    /\ Len(line) > 0
    /\ Len(amounts) = 0
    /\ hasLetter(line)

\* variant: the line appended to the first item
appendToFirst(items, line) ==
    IF Len(items) > 0
    THEN [items EXCEPT ![1].description = @ \o <<" ">> \o line]
    ELSE items

\* variant: the line appended without the space
appendToLastNoSpace(items, line) ==
    IF Len(items) > 0
    THEN [items EXCEPT ![Len(items)].description = @ \o line]
    ELSE items

\* last.description += ` ${line}` for the last item, if there is one
appendToLast(items, line) ==
    IF Len(items) > 0
    THEN [items EXCEPT ![Len(items)].description = @ \o <<" ">> \o line]
    ELSE items

\* variant: a field once set keeps its value
setFieldKeepFirst(old, amount) == IF IsSome(old) THEN old ELSE amount

\* result.subtotal = lastAmount, and the same for tax and total: the field's
\* value after the assignment
setField(old, amount) == amount

\* One iteration of the classification loop on line, from the record res and
\* the flag seen, with moneyRegex.lastIndex = lastIndex: the record and the
\* flag after it.
scanLine(res, seen, line, lastIndex) ==
    LET lower      == toLowerCase(line)
        amounts    == matchAllMoney(line, lastIndex)
        lastAmount == lastAmountOf(amounts)
        class      == Classify(isSubTotalLike(lower), isTaxLike(lower),
                               isTotalLike(lower), IsSome(lastAmount))
    IN  IF class = "subtotal" THEN [result |-> [res EXCEPT !.subtotal = setField(@, lastAmount)], seen |-> seen]
        ELSE IF class = "tax" THEN [result |-> [res EXCEPT !.tax = setField(@, lastAmount)], seen |-> seen]
        ELSE IF class = "total" THEN [result |-> [res EXCEPT !.total = setField(@, lastAmount)], seen |-> seen]
        ELSE IF isItemLine(line, lower, lastAmount)
        THEN LET description == itemDescription(line, amounts)
             IN  IF Len(description) > 0
                 THEN [result |-> [res EXCEPT !.lineItems =
                                      Append(@, [description |-> description,
                                                 amount      |-> Get(lastAmount),
                                                 selected    |-> FALSE])],
                       seen   |-> TRUE]
                 ELSE [result |-> res, seen |-> seen]
        ELSE IF isContinuation(seen, line, amounts)
        THEN [result |-> [res EXCEPT !.lineItems = appendToLast(@, line)], seen |-> seen]
        ELSE [result |-> res, seen |-> seen]

\* lineItems.reduce((acc, it) => acc + (it.amount || 0), 0), in cents
RECURSIVE sumAmounts(_)
sumAmounts(items) ==
    IF items = <<>> THEN 0 ELSE sumAmounts(SubSeq(items, 1, Len(items) - 1)) + items[Len(items)].amount

\* variant: without the test for items
needsFallbackNoItems(res) == res.total = None

\* result.total == null && result.lineItems.length > 0
needsFallback(res) == res.total = None /\ Len(res.lineItems) > 0

\* variant: the tax added to the sum
fallbackTotalWithTax(res) ==
    Some(sumAmounts(res.lineItems) + (IF IsSome(res.tax) THEN Get(res.tax) ELSE 0))

\* the total the fallback sets
fallbackTotal(res) == Some(sumAmounts(res.lineItems))

\* variant: tax starts at 0
initialResultZeroTax(txt, ls) ==
    [vendor    |-> IF Len(ls) > 0 THEN Some(ls[1]) ELSE None,
     date      |-> None,
     subtotal  |-> None,
     tax       |-> Some(0),
     total     |-> None,
     currency  |-> IF \E k \in 1..Len(txt) : txt[k] = "$" THEN Some("USD") ELSE None,
     lineItems |-> <<>>,
     rawText   |-> txt]

\* the record as the function creates it
initialResult(txt, ls) ==
    [vendor    |-> IF Len(ls) > 0 THEN Some(ls[1]) ELSE None,
     date      |-> None,
     subtotal  |-> None,
     tax       |-> None,
     total     |-> None,
     currency  |-> IF \E k \in 1..Len(txt) : txt[k] = "$" THEN Some("USD") ELSE None,
     lineItems |-> <<>>,
     rawText   |-> txt]

\* variant: every other line
advanceSkipping(k) == k + 2

\* the next offset of a for-of loop over lines
advance(k) == k + 1

----------------------------------------------------------------------------
(* Inputs *)

\* the longest sequence of lines drawn freely from CoreLines
MaxLines == 3
\* the longest sequence of lines of a text of a repeated call
MaxCallLines == 2

\* lines that are combined freely, up to MaxLines of them
CoreLines ==
    << <<"B","u","r","g","e","r"," ","8",".","5","0">>,
       <<" ","T","e","a"," ","-"," ","3",".","2","5","\r">>,
       <<"S","u","b","t","o","t","a","l"," ","1","0",".","5","0">>,
       <<"T","a","x"," ","1",".","0","0">>,
       <<"T","o","t","a","l"," ","1","1",".","5","0">>,
       <<"T","O","T","A","L"," ","0",".","0","0">>,
       <<"E","x","t","e","n","d","e","d"," ","W","a","r","r","a","n","t","y"," ","P","l","a","n">>,
       <<"[","[","P","A","G","E"," ","2","]","]">>,
       <<"C","a","s","h"," ","2","0",".","0","0">>,
       <<>>,
       <<"T","O","T","A","L">>,
       <<"0","1","/","0","2","/","2","0","2","4">> >>

\* lines that are tried alone, after each core line and before each core line
ExtraLines ==
    << <<"S","u","b"," ","t","o","t","a","l"," ","1","0",".","0","0">>,
       <<"S","u","b","-","t","o","t","a","l"," ","1","0",".","0","0">>,
       <<"T","o","t","a","l"," ","t","a","x"," ","1",".","0","0">>,
       <<"S","u","b"," ","t","o","t","a","l"," ","t","a","x"," ","3",".","0","0">>,
       <<"C","H","A","N","G","E"," ","1",".","5","0">>,
       <<"[","[","P","A","G","E"," ","1","0","]","]">>,
       <<"-","-","-","-">>,
       <<"W","i","d","g","e","t"," ","$","1",",","2","3","4",".","5","0">>,
       <<"W","i","d","g","e","t"," ","1","2","3","4",".","5","0">>,
       <<"W","i","d","g","e","t"," ","1","2">>,
       <<"J","a","n"," ","5",","," ","2","0","2","4">>,
       <<" "," ","\t">>,
       <<"J","o","e","'","s"," ","D","i","n","e","r">>,
       <<"F","r","i","e","s"," ","2",".","0","0">>,
       <<"V","A","T"," ","2",".","0","0">>,
       <<"l","o","o","s","e"," ","c","h","a","n","g","e"," ","t","r","a","y"," ","4",".","0","0">>,
       <<"$"," ","5">>,
       <<"2","0","2","4","-","0","1","-","0","2"," ","C","o","f","f","e","e"," ","3",".","0","0">>,
       <<"f","o","r"," ","E","l","e","c","t","r","o","n","i","c","s"," ","1","5",".","0","0">>,
       <<"-"," ","5",".","0","0">> >>

\* lines of the texts of repeated calls
CallLines ==
    << <<"B","u","r","g","e","r"," ","8",".","5","0">>,
       <<"T","o","t","a","l"," ","1","1",".","5","0">>,
       <<"E","x","t","e","n","d","e","d"," ","W","a","r","r","a","n","t","y"," ","P","l","a","n">>,
       <<"$"," ","5"," ","x"," ","2">> >>

\* Scenario A of the specification, and Scenario B: A without its last line
ScenarioALines ==
    << <<"J","o","e","'","s"," ","D","i","n","e","r">>,
       <<"0","1","/","0","2","/","2","0","2","4">>,
       <<"B","u","r","g","e","r"," ","8",".","5","0">>,
       <<"F","r","i","e","s"," ","2",".","0","0">>,
       <<"S","u","b","t","o","t","a","l"," ","1","0",".","5","0">>,
       <<"T","a","x"," ","1",".","0","0">>,
       <<"T","o","t","a","l"," ","1","1",".","5","0">> >>

ScenarioBLines == SubSeq(ScenarioALines, 1, 6)

\* the lines joined by line feeds
RECURSIVE joinLines(_)
joinLines(ls) ==
    IF ls = <<>> THEN <<>>
    ELSE IF Len(ls) = 1 THEN ls[1]
    ELSE ls[1] \o <<"\n">> \o joinLines(Tail(ls))

SeqsUpTo(S, n) == UNION { [1..k -> S] : k \in 0..n }

Texts ==
    { joinLines(ls) : ls \in SeqsUpTo(Range(CoreLines), MaxLines) }
    \cup { joinLines(pre \o <<x>> \o post) :
             pre \in SeqsUpTo(Range(CoreLines), 1),
             x \in Range(ExtraLines),
             post \in SeqsUpTo(Range(CoreLines), 1) }
    \cup { joinLines(ScenarioALines), joinLines(ScenarioBLines) }

CallTexts == { joinLines(ls) : ls \in SeqsUpTo(Range(CallLines), MaxCallLines) }

----------------------------------------------------------------------------
(* The state machine: one call of parseReceiptText, statement by statement *)

\* the record before the call has created its own
NoResult == initialResult(<<>>, <<>>)

InitWith(T) ==
    /\ text \in T
    /\ lines = <<>>
    /\ result = NoResult
    /\ seenItemsSection = FALSE
    /\ pc = "start"
    /\ i = 0
    /\ visited = <<>>
    /\ moneyLastIndex = 0
    /\ prior = None
    /\ HomeInit

Init == InitWith(Texts)

\* const lines = ...; const result = {...}
Begin ==
    /\ pc = "start"
    /\ lines' = trimAndFilter(splitLines(text))
    /\ result' = initialResult(text, lines')
    /\ pc' = "date"
    /\ i' = 0
    /\ UNCHANGED <<text, seenItemsSection, visited, moneyLastIndex, prior>>
    /\ UNCHANGED ui

\* variant: without the test of result.date
DateStepLast ==
    /\ pc = "date"
    /\ i < Len(lines)
    /\ LET line == lines[i + 1]
           m    == matchDate(line)
       IN  result' = IF IsSome(m) THEN [result EXCEPT !.date = m] ELSE result
    /\ i' = advance(i)
    /\ UNCHANGED <<text, lines, seenItemsSection, pc, visited, moneyLastIndex, prior>>
    /\ UNCHANGED ui

\* one iteration of the first loop: if (!result.date) { ... }
DateStep ==
    /\ pc = "date"
    /\ i < Len(lines)
    /\ LET line == lines[i + 1]
           m    == matchDate(line)
       IN  result' = IF (result.date = None \/ result.date = Some(<<>>)) /\ IsSome(m)
                     THEN [result EXCEPT !.date = m]
                     ELSE result
    /\ i' = advance(i)
    /\ UNCHANGED <<text, lines, seenItemsSection, pc, visited, moneyLastIndex, prior>>
    /\ UNCHANGED ui

\* variant: the flag starts true
DateDoneSeen ==
    /\ pc = "date"
    /\ i = Len(lines)
    /\ pc' = "scan"
    /\ i' = 0
    /\ seenItemsSection' = TRUE
    /\ UNCHANGED <<text, lines, result, visited, moneyLastIndex, prior>>
    /\ UNCHANGED ui

\* the first loop ends: let seenItemsSection = false
DateDone ==
    /\ pc = "date"
    /\ i = Len(lines)
    /\ pc' = "scan"
    /\ i' = 0
    /\ seenItemsSection' = FALSE
    /\ UNCHANGED <<text, lines, result, visited, moneyLastIndex, prior>>
    /\ UNCHANGED ui

\* one iteration of the classification loop
ScanStep ==
    /\ pc = "scan"
    /\ i < Len(lines)
    /\ \E next \in {scanLine(result, seenItemsSection, lines[i + 1], moneyLastIndex)} :
          /\ result' = next.result
          /\ seenItemsSection' = next.seen
    /\ visited' = Append(visited, lines[i + 1])
    /\ moneyLastIndex' = lastIndexAfterMatchAll(lines[i + 1], moneyLastIndex)
    /\ i' = advance(i)
    /\ UNCHANGED <<text, lines, pc, prior>>
    /\ UNCHANGED ui

\* the classification loop ends
ScanDone ==
    /\ pc = "scan"
    /\ i = Len(lines)
    /\ pc' = "fallback"
    /\ UNCHANGED <<text, lines, result, seenItemsSection, i, visited, moneyLastIndex, prior>>
    /\ UNCHANGED ui

\* the fallback total, and return result
Fallback ==
    /\ pc = "fallback"
    /\ result' = IF needsFallback(result)
                 THEN [result EXCEPT !.total = fallbackTotal(result)]
                 ELSE result
    /\ pc' = "done"
    /\ UNCHANGED <<text, lines, seenItemsSection, i, visited, moneyLastIndex, prior>>
    /\ UNCHANGED ui

\* The caller calls again, with any text: the locals of the returned call are
\* gone, the module-level moneyRegex stays.  The history keeps the text and the
\* record of the returned call, or those of an earlier one together with
\* whether a call on another text has returned since.
NextCall ==
    /\ pc = "done"
    /\ \E t \in CallTexts : text' = t
    /\ \E keep \in BOOLEAN :
          prior' = IF keep /\ IsSome(prior)
                   THEN Some([Get(prior) EXCEPT !.others = @ \/ Get(prior).text # text])
                   ELSE Some([text |-> text, result |-> result, others |-> FALSE])
    /\ lines' = <<>>
    /\ result' = NoResult
    /\ seenItemsSection' = FALSE
    /\ pc' = "start"
    /\ i' = 0
    /\ visited' = <<>>
    /\ UNCHANGED moneyLastIndex
    /\ UNCHANGED ui

Next == Begin \/ DateStep \/ DateDone \/ ScanStep \/ ScanDone \/ Fallback

\* one call, on any text of Texts
Spec == Init /\ [][Next]_vars

InitCalls == InitWith(CallTexts)

NextCalls == Next \/ NextCall

\* calls one after another, on texts of CallTexts
SpecCalls == InitCalls /\ [][NextCalls]_vars

----------------------------------------------------------------------------
(* parseReceiptText as the page calls it: the record it returns for a text *)
(*                                                                          *)
(* Each intermediate value is bound as the element of a one-element set, so *)
(* that it is computed once however often it is used.                       *)

\* the first loop over the lines ls, from the record res
RECURSIVE dateLoop(_, _)
dateLoop(res, ls) ==
    IF ls = <<>> THEN res
    ELSE CHOOSE out \in
            { dateLoop(next, Tail(ls)) :
                next \in { IF (res.date = None \/ res.date = Some(<<>>)) /\ IsSome(m)
                           THEN [res EXCEPT !.date = m]
                           ELSE res : m \in {matchDate(Head(ls))} } } : TRUE

\* the classification loop over the lines ls, from the record and the flag of st
RECURSIVE scanLoop(_, _)
scanLoop(st, ls) ==
    IF ls = <<>> THEN st
    ELSE CHOOSE out \in
            { scanLoop(next, Tail(ls)) :
                next \in {scanLine(st.result, st.seen, Head(ls), 0)} } : TRUE

\* the record after the fallback total
withFallback(res) ==
    IF needsFallback(res) THEN [res EXCEPT !.total = fallbackTotal(res)] ELSE res

\* the record returned
parseReceiptText(txt) ==
    CHOOSE out \in
       { withFallback(scanned.result) :
           scanned \in UNION
              { { scanLoop([result |-> dated, seen |-> FALSE], ls) :
                    dated \in {dateLoop(initialResult(txt, ls), ls)} } :
                 ls \in {trimAndFilter(splitLines(txt))} } } : TRUE

\* the call has returned what parseReceiptText gives for its text
ReturnsParse == pc = "done" => result = parseReceiptText(text)

----------------------------------------------------------------------------
(* The files, and what the OCR module makes of them *)

\* the most calls of handleProcess that begin
MaxRuns == 1

\* A file: its name, its type, and the text the OCR engine reads on each of
\* its images (the one image of an image file, the rendered pages of a PDF).
Files ==
    { [name  |-> <<"a",".","p","n","g">>,
       type  |-> "image/png",
       pages |-> << <<"B","u","r","g","e","r"," ","8",".","5","0","\n",
                      " ","T","e","a"," ","-"," ","3",".","2","5","\n">> >>],
      [name  |-> <<"R",".","P","D","F">>,
       type  |-> "",
       pages |-> << <<"F","r","i","e","s"," ","2",".","0","0","\n">>,
                    <<"T","o","t","a","l"," ","2",".","0","0">> >>] }

\* s.endsWith(w)
endsWith(s, w) == Len(s) >= Len(w) /\ SubSeq(s, Len(s) - Len(w) + 1, Len(s)) = w

\* const isPdf
isPdf(f) == f.type = "application/pdf" \/ endsWith(toLowerCase(f.name), <<".","p","d","f">>)

\* a natural number in decimal, as a template literal writes it
RECURSIVE ToDecimal(_)
ToDecimal(n) ==
    IF n < 10 THEN <<DigitSeq[n + 1]>>
    ELSE ToDecimal(n \div 10) \o <<DigitSeq[(n % 10) + 1]>>

\* combined += `\n\n[[PAGE ${i + 1}]]\n` + pageText, for the image at offset k
addPage(combined, k, pageText) ==
    combined \o <<"\n","\n","[","[","P","A","G","E"," ">> \o ToDecimal(k + 1)
             \o <<"]","]","\n">> \o pageText

----------------------------------------------------------------------------
(* The page (Home) and the OCR module                                        *)
(*                                                                           *)
(* A call of handleProcess is followed from one await to the next: a step is *)
(* the settling of the promise the call waits for, together with the code    *)
(* that then runs up to the next await.  When extractTextFromFile has        *)
(* settled, handleProcess goes on in a step of its own.                      *)
(* Each promise that depends on the network, the engine or the file may be   *)
(* rejected.  ocrProgress holds the stage of the progress value only.        *)

\* the call of handleProcess just begun for the file f: it has written the
\* stage "loading" and waits for the PDF engine or for the import of the OCR
\* engine
newRun(f) ==
    [file         |-> f,
     pc           |-> IF isPdf(f)
                      THEN IF pdfjsLib THEN "pdfjsReady" ELSE "pdfjsScript"
                      ELSE "import",
     page         |-> 0,        \* pageNum while rendering, then the offset i of the image
     combined     |-> <<>>,     \* let combined
     pageText     |-> <<>>,     \* the text recognize has given, until finally is through
     text         |-> <<>>,     \* the text extractTextFromFile has resolved with
     failed       |-> FALSE,    \* finally runs on a rejection
     worker       |-> "none",   \* the worker: "none", "live", "terminated", "unknown"
     workers      |-> <<>>,     \* every worker the call has created, oldest first
     recognised   |-> <<>>,     \* history: the offsets of the images recognised, in order
     parserArg    |-> None,     \* history: the text parseReceiptText was called with
     wroteRawText |-> FALSE,    \* history: the call has called setRawText
     wroteParsed  |-> FALSE,    \* history: the call has called setParsed
     rejected     |-> FALSE,    \* history: extractTextFromFile has been rejected
     last         |-> "loading" \* history: the stage the call wrote last
    ]

\* the call r waits at the await named p
At(r, p) == r \in 1..Len(runs) /\ runs[r].pc = p

\* onProgress(stage) by the call whose record becomes rec
Progress(r, rec, stage) ==
    /\ ocrProgress' = Some(stage)
    /\ runs' = [runs EXCEPT ![r] = [rec EXCEPT !.last = stage]]

\* extractTextFromFile is rejected, the record of the call r being rec
Reject(r, rec) ==
    [runs EXCEPT ![r] = [rec EXCEPT !.pc = "settling", !.failed = TRUE, !.rejected = TRUE]]

\* catch (err) { ... setOcrProgress({ stage: "error", message }) }
Catch(r) ==
    /\ Progress(r, [runs[r] EXCEPT !.pc = "settled"], "error")
    /\ UNCHANGED <<file, rawText, parsed, selectAll, pdfjsLib, parsedOf>>

\* setRawText(text); const p = parseReceiptText(text); setParsed(p);
\* setOcrProgress({ stage: "done", percent: 100 })
Then(r) ==
    /\ rawText' = runs[r].text
    /\ \E p \in {parseReceiptText(runs[r].text)} : parsed' = Some(p)
    /\ parsedOf' = Some(runs[r].file)
    /\ Progress(r, [runs[r] EXCEPT !.pc = "settled",
                                   !.parserArg = Some(runs[r].text),
                                   !.wroteRawText = TRUE,
                                   !.wroteParsed = TRUE], "done")
    /\ UNCHANGED <<file, selectAll, pdfjsLib>>

\* handleFileChange: the input's first file, or null
HandleFileChange ==
    /\ \E f \in {None} \cup {Some(x) : x \in Files} : file' = f
    /\ parsed' = None
    /\ rawText' = <<>>
    /\ selectAll' = FALSE
    /\ parsedOf' = None
    /\ UNCHANGED <<ocrProgress, pdfjsLib, runs>>
    /\ UNCHANGED parser

\* handleProcess, up to its await: if (!file) return; setOcrProgress(loading);
\* extractTextFromFile runs up to its first await (for a PDF through
\* renderPdfToImages into ensurePdfJs, which write the stage "loading" again)
HandleProcess ==
    /\ IsSome(file)
    /\ Len(runs) < MaxRuns
    /\ ocrProgress' = Some("loading")
    /\ runs' = Append(runs, newRun(Get(file)))
    /\ UNCHANGED <<file, rawText, parsed, selectAll, pdfjsLib, parsedOf>>
    /\ UNCHANGED parser

\* await ensurePdfJs(onProgress): window.pdfjsLib was there, or the script has
\* loaded (ok) or failed to; then await file.arrayBuffer()
EnsurePdfJs(r, ok) ==
    /\ At(r, "pdfjsReady") \/ At(r, "pdfjsScript")
    /\ ok \/ At(r, "pdfjsScript")
    /\ IF ok
       THEN /\ pdfjsLib' = TRUE
            /\ runs' = [runs EXCEPT ![r].pc = "document"]
            /\ UNCHANGED <<file, ocrProgress, rawText, parsed, selectAll, parsedOf>>
       ELSE /\ runs' = Reject(r, runs[r])
            /\ UNCHANGED <<file, ocrProgress, rawText, parsed, selectAll, pdfjsLib, parsedOf>>
    /\ UNCHANGED parser

\* await file.arrayBuffer(); await loadingTask.promise; then the first
\* iteration of the loop over the pages begins, or the loop is empty and
\* extractTextFromFile returns "".trim()
GetDocument(r, ok) ==
    /\ At(r, "document")
    /\ IF ~ok
       THEN /\ runs' = Reject(r, runs[r])
            /\ UNCHANGED ocrProgress
       ELSE IF Len(runs[r].file.pages) >= 1
       THEN Progress(r, [runs[r] EXCEPT !.pc = "render", !.page = 1], "rendering")
       ELSE Progress(r, [runs[r] EXCEPT !.pc = "settling", !.text = trim(<<>>)], "rendering")
    /\ UNCHANGED <<file, rawText, parsed, selectAll, pdfjsLib, parsedOf>>
    /\ UNCHANGED parser

\* await pdf.getPage(pageNum); await page.render(...).promise; await the blob;
\* then the next iteration, or the loop is through: onProgress(rendering),
\* return pageImages, and extractTextFromFile calls extractTextFromImageBlob
\* for the first image, up to its await import
RenderPage(r, ok) ==
    /\ At(r, "render")
    /\ IF ~ok
       THEN /\ runs' = Reject(r, runs[r])
            /\ UNCHANGED ocrProgress
       ELSE IF runs[r].page < Len(runs[r].file.pages)
       THEN Progress(r, [runs[r] EXCEPT !.page = @ + 1], "rendering")
       ELSE Progress(r, [runs[r] EXCEPT !.pc = "import", !.page = 0], "rendering")
    /\ UNCHANGED <<file, rawText, parsed, selectAll, pdfjsLib, parsedOf>>
    /\ UNCHANGED parser

\* await import("tesseract.js"); onProgress(loading); createWorker({...})
ImportEngine(r, ok) ==
    /\ At(r, "import")
    /\ IF ~ok
       THEN /\ runs' = Reject(r, runs[r])
            /\ UNCHANGED ocrProgress
       ELSE Progress(r, [runs[r] EXCEPT !.pc = "createWorker"], "loading")
    /\ UNCHANGED <<file, rawText, parsed, selectAll, pdfjsLib, parsedOf>>
    /\ UNCHANGED parser

\* the workers there are when createWorker has resolved with one more
created(ws) == Append(ws, "live")

\* variant: finally leaves the worker as it is
afterTerminateLeak(ws, ok) == ws

\* the workers there are when w.terminate() has settled: the newest one is
\* terminated when the promise is fulfilled; when it is rejected the library
\* has not said what became of the worker ("unknown")
afterTerminate(ws, ok) ==
    [ws EXCEPT ![Len(ws)] = IF ok THEN "terminated" ELSE "unknown"]

\* const worker = await createWorker({...}), before the try; then w.load()
CreateWorker(r, ok) ==
    /\ At(r, "createWorker")
    /\ runs' = IF ~ok THEN Reject(r, runs[r])
               ELSE [runs EXCEPT ![r].pc = "initialize", ![r].worker = "live",
                                 ![r].workers = created(@)]
    /\ UNCHANGED <<file, ocrProgress, rawText, parsed, selectAll, pdfjsLib, parsedOf>>
    /\ UNCHANGED parser

\* await w.load(); await w.loadLanguage("eng"); await w.initialize("eng");
\* onProgress(recognizing); w.recognize(imageBlob).  When one of the three is
\* rejected the finally block begins: w.terminate()
Initialize(r, ok) ==
    /\ At(r, "initialize")
    /\ IF ok
       THEN /\ Progress(r, [runs[r] EXCEPT !.pc = "recognize"], "recognizing")
       ELSE /\ runs' = [runs EXCEPT ![r].pc = "terminate", ![r].failed = TRUE]
            /\ UNCHANGED ocrProgress
    /\ UNCHANGED <<file, rawText, parsed, selectAll, pdfjsLib, parsedOf>>
    /\ UNCHANGED parser

\* logger: the worker reports "recognizing text" while recognize runs
LoggerProgress(r) ==
    /\ At(r, "recognize")
    /\ Progress(r, runs[r], "recognizing")
    /\ UNCHANGED <<file, rawText, parsed, selectAll, pdfjsLib, parsedOf>>
    /\ UNCHANGED parser

\* const { data } = await w.recognize(imageBlob); return data.text || "", and
\* the finally block begins: w.terminate()
Recognize(r, ok) ==
    /\ At(r, "recognize")
    /\ runs' = [runs EXCEPT ![r].pc = "terminate",
                            ![r].failed = ~ok,
                            ![r].recognised = IF ok THEN Append(@, runs[r].page) ELSE @,
                            ![r].pageText = IF ok THEN runs[r].file.pages[runs[r].page + 1]
                                            ELSE <<>>]
    /\ UNCHANGED <<file, ocrProgress, rawText, parsed, selectAll, pdfjsLib, parsedOf>>
    /\ UNCHANGED parser

\* await w.terminate(); onProgress(done); then extractTextFromImageBlob
\* returns the text or throws again.  With the text, extractTextFromFile of a
\* PDF adds the page to combined and calls extractTextFromImageBlob for the
\* next image, or returns combined.trim(); the text of an image file is what
\* it resolves with.  When terminate is rejected, its rejection is thrown and
\* onProgress(done) is not reached.
Terminate(r, ok) ==
    /\ At(r, "terminate")
    /\ IF ~ok
       THEN /\ runs' = Reject(r, [runs[r] EXCEPT !.worker = "unknown",
                                                 !.workers = afterTerminate(@, ok),
                                                 !.pageText = <<>>])
            /\ UNCHANGED ocrProgress
       ELSE \E rec \in {[runs[r] EXCEPT !.worker = "terminated",
                                        !.workers = afterTerminate(@, ok),
                                        !.pageText = <<>>]} :
               IF rec.failed
               THEN Progress(r, [rec EXCEPT !.pc = "settling", !.rejected = TRUE], "done")
               ELSE IF ~isPdf(rec.file)
               THEN Progress(r, [rec EXCEPT !.pc = "settling", !.text = runs[r].pageText], "done")
               ELSE \E all \in {addPage(rec.combined, rec.page, runs[r].pageText)} :
                       IF rec.page + 1 < Len(rec.file.pages)
                       THEN Progress(r, [rec EXCEPT !.pc = "import",
                                                    !.page = @ + 1,
                                                    !.combined = all,
                                                    !.worker = "none"], "done")
                       ELSE Progress(r, [rec EXCEPT !.pc = "settling",
                                                    !.combined = all,
                                                    !.text = trim(all)], "done")
    /\ UNCHANGED <<file, rawText, parsed, selectAll, pdfjsLib, parsedOf>>
    /\ UNCHANGED parser

\* variant: the text is taken whether or not there was a rejection
SettleAlways(r) ==
    /\ At(r, "settling")
    /\ Then(r)
    /\ UNCHANGED parser

\* handleProcess goes on after its await: with the text, or in its catch
\* block with the rejection
Settle(r) ==
    /\ At(r, "settling")
    /\ IF runs[r].failed THEN Catch(r) ELSE Then(r)
    /\ UNCHANGED parser

\* variant: the item after the one at index
toggleItemNext(prev, index, checked) ==
    IF prev = None THEN prev
    ELSE Some([Get(prev) EXCEPT !.lineItems =
                  [k \in DOMAIN @ |-> IF k - 1 = index + 1
                                      THEN [@[k] EXCEPT !.selected = checked]
                                      ELSE @[k]]])

\* the updater of toggleItem: prev with selected = checked in the item at
\* index (offsets of Array.map are 0-based)
toggleItem(prev, index, checked) ==
    IF prev = None THEN prev
    ELSE Some([Get(prev) EXCEPT !.lineItems =
                  [k \in DOMAIN @ |-> IF k - 1 = index
                                      THEN [@[k] EXCEPT !.selected = checked]
                                      ELSE @[k]]])

\* the updater of onToggleAll: prev with selected = checked in every item
toggleAll(prev, checked) ==
    IF prev = None THEN prev
    ELSE Some([Get(prev) EXCEPT !.lineItems =
                  [k \in DOMAIN @ |-> [@[k] EXCEPT !.selected = checked]]])

\* parsed.lineItems.filter((it) => it.selected)
selectedItems(items) == SelectSeq(items, LAMBDA it : it.selected)

\* const selectedTotal, in cents: Number(sum.toFixed(2)) is the sum itself
\* when the sum is counted in cents
selectedTotal(p) ==
    IF p = None THEN 0 ELSE sumAmounts(selectedItems(Get(p).lineItems))

\* toggleItem(idx, checked), from the checkbox of a row or with any other index
ToggleItem ==
    /\ IsSome(parsed)
    /\ \E index \in -1..Len(Get(parsed).lineItems), checked \in BOOLEAN :
          parsed' = toggleItem(parsed, index, checked)
    /\ UNCHANGED <<file, ocrProgress, rawText, selectAll, pdfjsLib, runs, parsedOf>>
    /\ UNCHANGED parser

\* onToggleAll(checked), from the checkbox above the rows
OnToggleAll ==
    /\ IsSome(parsed)
    /\ \E checked \in BOOLEAN :
          /\ selectAll' = checked
          /\ parsed' = toggleAll(parsed, checked)
    /\ UNCHANGED <<file, ocrProgress, rawText, pdfjsLib, runs, parsedOf>>
    /\ UNCHANGED parser

\* no call of parseReceiptText of its own is followed while the page runs
InitHome ==
    /\ text = <<>>
    /\ lines = <<>>
    /\ result = NoResult
    /\ seenItemsSection = FALSE
    /\ pc = "idle"
    /\ i = 0
    /\ visited = <<>>
    /\ moneyLastIndex = 0
    /\ prior = None
    /\ HomeInit

NextHome ==
    \/ HandleFileChange
    \/ HandleProcess
    \/ \E r \in 1..MaxRuns, ok \in BOOLEAN : EnsurePdfJs(r, ok)
    \/ \E r \in 1..MaxRuns, ok \in BOOLEAN : GetDocument(r, ok)
    \/ \E r \in 1..MaxRuns, ok \in BOOLEAN : RenderPage(r, ok)
    \/ \E r \in 1..MaxRuns, ok \in BOOLEAN : ImportEngine(r, ok)
    \/ \E r \in 1..MaxRuns, ok \in BOOLEAN : CreateWorker(r, ok)
    \/ \E r \in 1..MaxRuns, ok \in BOOLEAN : Initialize(r, ok)
    \/ \E r \in 1..MaxRuns : LoggerProgress(r)
    \/ \E r \in 1..MaxRuns, ok \in BOOLEAN : Recognize(r, ok)
    \/ \E r \in 1..MaxRuns, ok \in BOOLEAN : Terminate(r, ok)
    \/ \E r \in 1..MaxRuns : Settle(r)
    \/ ToggleItem
    \/ OnToggleAll

\* the page: files chosen, Process clicked, rows toggled, in any order, while
\* the calls of handleProcess go on
SpecHome == InitHome /\ [][NextHome]_vars

----------------------------------------------------------------------------
(* Notions the properties below are stated with *)

\* the classification loop is about to take the line at offset i
AtScan == pc = "scan" /\ i < Len(lines)
\* that line
CurLine == lines[i + 1]
\* the line the classification loop took last
PrevLine == lines[i]
\* the candidate amount of a line: the amount of its last monetary token
CandidateAmount(line) == lastAmountOf(matchAllMoney(line, 0))
\* the line matches a summary keyword
IsSummaryLine(line) ==
    \/ isSubTotalLike(toLowerCase(line))
    \/ isTaxLike(toLowerCase(line))
    \/ isTotalLike(toLowerCase(line))
\* a marker line as extractTextFromFile inserts it: [[PAGE n]]
IsPageMarker(line) ==
    /\ StartsAt(line, <<"[","[","P","A","G","E"," ">>, 0)
    /\ DigitRun(line, 7) >= 1
    /\ StartsAt(line, <<"]","]">>, 7 + DigitRun(line, 7))
    /\ Len(line) = 7 + DigitRun(line, 7) + 2
\* the sum of the amounts of the items, from the first item on
RECURSIVE ItemCents(_)
ItemCents(items) == IF items = <<>> THEN 0 ELSE Head(items).amount + ItemCents(Tail(items))
\* no character of the text is outside white space and line breaks
OnlyWhiteSpace(txt) == \A k \in 1..Len(txt) : txt[k] \in {" ", "\t", "\r", "\n"}
\* the descriptions and amounts of a sequence of items
Priced(items) == [k \in 1..Len(items) |-> <<items[k].description, items[k].amount>>]

ScenarioAText == joinLines(ScenarioALines)
ScenarioBText == joinLines(ScenarioBLines)

----------------------------------------------------------------------------
(* C1 *)

\* C1: on the seven lines of Scenario A the call returns vendor "Joe's Diner",
\* date "01/02/2024", subtotal 10.50, tax 1.00, total 11.50 and exactly the two
\* items ("Burger", 8.50) and ("Fries", 2.00).
C1_ScenarioA ==
    (pc = "done" /\ text = ScenarioAText) =>
        /\ result.vendor = Some(ScenarioALines[1])
        /\ result.date = Some(ScenarioALines[2])
        /\ result.subtotal = Some(1050)
        /\ result.tax = Some(100)
        /\ result.total = Some(1150)
        /\ Priced(result.lineItems) = << <<<<"B","u","r","g","e","r">>, 850>>, <<<<"F","r","i","e","s">>, 200>> >>

----------------------------------------------------------------------------
(* C2 *)

\* C2: a page-marker line that is not the first retained line is skipped by the
\* classification loop: the step that takes it appends no item, extends no
\* description and changes none of subtotal, tax, total.
C2_PageMarkerSkipped ==
    [][(AtScan /\ i >= 1 /\ IsPageMarker(CurLine)) =>
          /\ result'.lineItems = result.lineItems
          /\ result'.subtotal = result.subtotal
          /\ result'.tax = result.tax
          /\ result'.total = result.total]_vars

----------------------------------------------------------------------------
(* C3 *)

\* C3: when the scan has set no total and has accepted at least one item, the
\* returned total is the sum of the amounts of the accepted items (and so holds
\* nothing of tax or subtotal); in every other case the fallback leaves total as
\* the scan left it, an explicit total of 0 included.
C3_FallbackLaw ==
    [][pc = "fallback" =>
          /\ pc' = "done"
          /\ IF result.total = None /\ Len(result.lineItems) > 0
             THEN result'.total = Some(ItemCents(result.lineItems))
             ELSE result'.total = result.total]_vars

\* a call has returned a fallback total of two items beside a tax and a subtotal
C3_Witness ==
    /\ pc = "done"
    /\ \A k \in 1..Len(lines) : ~isTotalLike(toLowerCase(lines[k]))
    /\ Len(result.lineItems) >= 2
    /\ IsSome(result.tax)
    /\ Get(result.tax) > 0
    /\ result.total = Some(ItemCents(result.lineItems))

----------------------------------------------------------------------------
(* C4 *)

\* C4: on Scenario B, Scenario A without its "Total 11.50" line, the call
\* returns total 10.50.
C4_ScenarioB ==
    (pc = "done" /\ text = ScenarioBText) => result.total = Some(1050)

----------------------------------------------------------------------------
(* C5 *)

----------------------------------------------------------------------------
(* C6 *)

\* C6: the step that takes a line with the whole word "cash" or "change", in
\* any letter case, appends no item, whatever the state of the scan.
C6_TenderExclusion ==
    [][(AtScan /\ (hasCash(toLowerCase(CurLine)) \/ hasChange(toLowerCase(CurLine)))) =>
          Len(result'.lineItems) = Len(result.lineItems)]_vars

\* the loop has just taken an upper-case CHANGE line with an amount, after an item
C6_Witness ==
    /\ pc = "scan"
    /\ i >= 2
    /\ StartsAt(PrevLine, <<"C","H","A","N","G","E">>, 0)
    /\ IsSome(CandidateAmount(PrevLine))
    /\ Len(result.lineItems) = 1
    /\ seenItemsSection

----------------------------------------------------------------------------
(* C7 *)

\* C7: the step that takes a line with no monetary token, with a letter and
\* with no summary keyword: once an item has been accepted it appends a space
\* and the line to the description of the last item and changes nothing else;
\* before any item has been accepted it changes nothing at all.
C7_Continuation ==
    [][(/\ AtScan
        /\ matchAllMoney(CurLine, 0) = <<>>
        /\ hasLetter(CurLine)
        /\ ~IsSummaryLine(CurLine)) =>
          IF Len(result.lineItems) > 0
          THEN /\ result' = [result EXCEPT
                               !.lineItems[Len(result.lineItems)].description =
                                   @ \o <<" ">> \o CurLine]
               /\ seenItemsSection' = seenItemsSection
          ELSE /\ result' = result
               /\ seenItemsSection' = seenItemsSection]_vars

\* the loop has just appended "Extended Warranty Plan" to the item "Burger"
C7_Witness ==
    /\ pc = "scan"
    /\ i >= 2
    /\ PrevLine = <<"E","x","t","e","n","d","e","d"," ","W","a","r","r","a","n","t","y"," ","P","l","a","n">>
    /\ Len(result.lineItems) >= 1
    /\ result.lineItems[Len(result.lineItems)].description =
          <<"B","u","r","g","e","r"," ","E","x","t","e","n","d","e","d"," ","W","a","r","r","a","n","t","y"," ","P","l","a","n">>
    /\ result.lineItems[Len(result.lineItems)].amount = 850

----------------------------------------------------------------------------
(* C8 *)

\* a measure of what is left of the call: the statements left, then the lines
\* left of the running loop
CallMeasure ==
    LET rank == CASE pc = "start" -> 4
                  [] pc = "date" -> 3
                  [] pc = "scan" -> 2
                  [] pc = "fallback" -> 1
                  [] pc = "done" -> 0
    IN  rank * (Len(text) + 2) + (IF pc \in {"date", "scan"} THEN Len(lines) - i ELSE 0)

\* the guard of one of the statements of the call holds (what each statement
\* then does is defined for every record and every line)
CanStep ==
    \/ pc = "start"
    \/ pc = "date" /\ i <= Len(lines)
    \/ pc = "scan" /\ i <= Len(lines)
    \/ pc = "fallback"

\* C8: the call terminates and returns a record: until it has returned a next
\* statement can always be taken, every statement taken lowers a measure that
\* never is negative, and the record returned echoes the text.  The lines
\* retained are trimmed and not empty, and the classification loop visits each
\* of them once, in order, whatever the line is.
C8_Totality ==
    /\ [](pc # "done" => CanStep)
    /\ [](CallMeasure >= 0)
    /\ [][CallMeasure' < CallMeasure]_vars
    /\ [](pc = "done" => result.rawText = text)
    /\ [](\A k \in 1..Len(lines) :
             Len(lines[k]) > 0 /\ ~IsSpace(lines[k][1]) /\ ~IsSpace(lines[k][Len(lines[k])]))
    /\ [](pc = "scan" => i <= Len(lines) /\ visited = SubSeq(lines, 1, i))
    /\ [](pc \in {"fallback", "done"} => visited = lines)

\* a call has returned after visiting three lines, the second matching no rule
C8_Witness ==
    /\ pc = "done"
    /\ Len(lines) = 3
    /\ visited = lines
    /\ lines[2] = <<"-","-","-","-">>
    /\ Len(result.lineItems) = 2

----------------------------------------------------------------------------
(* C9 *)

\* C9: on a text of white space and line breaks only, the empty text included,
\* the call returns vendor, date, subtotal, tax, total and currency absent, no
\* items, and the text as rawText.
C9_EmptyInput ==
    (pc = "done" /\ OnlyWhiteSpace(text)) =>
        result = [vendor |-> None, date |-> None, subtotal |-> None, tax |-> None,
                  total |-> None, currency |-> None, lineItems |-> <<>>,
                  rawText |-> text]

\* a call has returned on a text of blanks and line breaks
C9_Witness ==
    /\ pc = "done"
    /\ OnlyWhiteSpace(text)
    /\ \E k \in 1..Len(text) : text[k] = "\n"
    /\ \E k \in 1..Len(text) : text[k] = " "
    /\ result.rawText = text
    /\ result.lineItems = <<>>

----------------------------------------------------------------------------
(* C10 *)

----------------------------------------------------------------------------
(* C13 *)

\* C13: the candidate amount of a line is the amount of its last monetary
\* token, read as one whole token.  The step that takes "Widget $1,234.50" or
\* "Widget 1234.50" appends an item of amount 1234.50, the step that takes
\* "Widget 12" an item of amount 12.00, and the step that takes a line with no
\* digit finds no amount: it appends no item and sets none of subtotal, tax,
\* total.
C13_CandidateAmount ==
    [][AtScan =>
          /\ (CurLine \in { <<"W","i","d","g","e","t"," ","$","1",",","2","3","4",".","5","0">>,
                            <<"W","i","d","g","e","t"," ","1","2","3","4",".","5","0">> }) =>
                /\ CandidateAmount(CurLine) = Some(123450)
                /\ Len(result'.lineItems) = Len(result.lineItems) + 1
                /\ result'.lineItems[Len(result'.lineItems)].amount = 123450
          /\ (CurLine = <<"W","i","d","g","e","t"," ","1","2">>) =>
                /\ CandidateAmount(CurLine) = Some(1200)
                /\ Len(result'.lineItems) = Len(result.lineItems) + 1
                /\ result'.lineItems[Len(result'.lineItems)].amount = 1200
          /\ ~hasDigit(CurLine) =>
                /\ CandidateAmount(CurLine) = None
                /\ Len(result'.lineItems) = Len(result.lineItems)
                /\ result'.subtotal = result.subtotal
                /\ result'.tax = result.tax
                /\ result'.total = result.total]_vars

----------------------------------------------------------------------------
(* C14 *)

\* the summary field a line with a candidate amount is classified into
FieldOf(line) ==
    IF ~IsSome(CandidateAmount(line)) THEN "none"
    ELSE IF isSubTotalLike(toLowerCase(line)) THEN "subtotal"
    ELSE IF isTaxLike(toLowerCase(line)) THEN "tax"
    ELSE IF isTotalLike(toLowerCase(line)) THEN "total"
    ELSE "none"

\* the candidate amount of the last line of ls classified into field, absent
\* when there is none
RECURSIVE LastClassified(_, _)
LastClassified(field, ls) ==
    IF ls = <<>> THEN None
    ELSE IF FieldOf(ls[Len(ls)]) = field THEN CandidateAmount(ls[Len(ls)])
    ELSE LastClassified(field, SubSeq(ls, 1, Len(ls) - 1))

\* C14: last match wins.  When the classification loop has taken every line,
\* each of subtotal, tax, total is the candidate amount of the last line that
\* was classified into it with a candidate amount, whatever the earlier lines
\* set and whatever keyword lines without an amount came later; the record
\* returned has these values of subtotal and tax, and of total when a line
\* set it.
C14_LastMatchWins ==
    /\ [](pc = "fallback" =>
             /\ result.subtotal = LastClassified("subtotal", lines)
             /\ result.tax = LastClassified("tax", lines)
             /\ result.total = LastClassified("total", lines))
    /\ [][pc = "fallback" =>
             /\ pc' = "done"
             /\ result'.subtotal = result.subtotal
             /\ result'.tax = result.tax
             /\ IsSome(result.total) => result'.total = result.total]_vars

\* a call has returned the total of the second of two total lines with
\* amounts, a bare "TOTAL" line having come after them
C14_Witness ==
    /\ pc = "done"
    /\ Len(lines) = 3
    /\ FieldOf(lines[1]) = "total"
    /\ FieldOf(lines[2]) = "total"
    /\ CandidateAmount(lines[1]) # CandidateAmount(lines[2])
    /\ isTotalLike(toLowerCase(lines[3]))
    /\ CandidateAmount(lines[3]) = None
    /\ result.total = CandidateAmount(lines[2])

----------------------------------------------------------------------------
(* C15 *)

\* C15: seenItemsSection is false until the step that appends the first item,
\* which sets it, and is never reset: in every state of the call it is true if
\* and only if lineItems is not empty, and a step that changes it is a step
\* from no item to one item.
C15_ItemsSeen ==
    /\ [](seenItemsSection <=> Len(result.lineItems) > 0)
    /\ [](pc \in {"start", "date"} => ~seenItemsSection)
    /\ [][seenItemsSection => seenItemsSection']_vars
    /\ [][seenItemsSection' # seenItemsSection =>
             /\ AtScan
             /\ ~seenItemsSection
             /\ result.lineItems = <<>>
             /\ Len(result'.lineItems) = 1]_vars

\* the loop has taken a summary line, which left the flag false, then an item
\* line, which set it
C15_Witness ==
    /\ pc = "scan"
    /\ i = 2
    /\ FieldOf(lines[1]) # "none"
    /\ IsSome(CandidateAmount(lines[2]))
    /\ seenItemsSection
    /\ Len(result.lineItems) = 1

----------------------------------------------------------------------------
(* C16 *)

\* C16: the step that takes a subtotal-like, tax-like or total-like line, with
\* or without a candidate amount, leaves the description of every item as it
\* is and appends no item.
C16_SummaryNotAbsorbed ==
    [][(AtScan /\ IsSummaryLine(CurLine)) =>
          result'.lineItems = result.lineItems]_vars

----------------------------------------------------------------------------
(* C17 *)

\* the capture of the date pattern in the first line of ls that matches it,
\* absent when no line matches
RECURSIVE FirstDate(_)
FirstDate(ls) ==
    IF ls = <<>> THEN None
    ELSE IF IsSome(matchDate(Head(ls))) THEN matchDate(Head(ls))
    ELSE FirstDate(Tail(ls))

\* C17: first match wins.  When the date loop has taken every line, date is
\* the capture (a part of the line, the line itself only when the whole line
\* is the date) of the first retained line that matches the date pattern,
\* absent exactly when no retained line matches; a date once set is changed by
\* no later step, and the record returned has it.
C17_FirstDateWins ==
    /\ [](pc = "scan" /\ i = 0 =>
             /\ result.date = FirstDate(lines)
             /\ result.date = None <=> \A k \in 1..Len(lines) : matchDate(lines[k]) = None)
    /\ [][IsSome(result.date) => result'.date = result.date]_vars
    /\ [][pc # "date" => result'.date = result.date]_vars

\* a call has returned the date captured in its first line, a part of that
\* line, a later line matching the date pattern with another capture
C17_Witness ==
    /\ pc = "done"
    /\ Len(lines) >= 2
    /\ IsSome(matchDate(lines[1]))
    /\ matchDate(lines[1]) # Some(lines[1])
    /\ IsSome(matchDate(lines[2]))
    /\ matchDate(lines[2]) # matchDate(lines[1])
    /\ result.date = matchDate(lines[1])

----------------------------------------------------------------------------
(* C18 *)

\* the line is accepted as an item: no keyword branch takes it, the item branch
\* does, and its description is not empty
IsAccepted(line) ==
    /\ FieldOf(line) = "none"
    /\ isItemLine(line, toLowerCase(line), CandidateAmount(line))
    /\ Len(itemDescription(line, matchAllMoney(line, 0))) > 0

\* the accepted lines of ls, in the order of ls
RECURSIVE AcceptedLines(_)
AcceptedLines(ls) ==
    IF ls = <<>> THEN <<>>
    ELSE IF IsAccepted(Head(ls)) THEN <<Head(ls)>> \o AcceptedLines(Tail(ls))
    ELSE AcceptedLines(Tail(ls))

\* a is the beginning of b
IsPrefix(a, b) == Len(a) <= Len(b) /\ SubSeq(b, 1, Len(a)) = a

\* C18: lineItems is append-only.  A step leaves the items there are in place,
\* with their amounts and flags, and with their descriptions but for the last
\* one's, which may grow at its end; it appends at most one item, at the end.
\* After the classification loop the items are, one for one and in order, those
\* of the accepted lines; every item of the record returned has a description
\* that is not empty and selected = false.
C18_AppendOnly ==
    /\ [][/\ Len(result'.lineItems) \in {Len(result.lineItems), Len(result.lineItems) + 1}
          /\ \A k \in 1..Len(result.lineItems) :
                /\ result'.lineItems[k].amount = result.lineItems[k].amount
                /\ result'.lineItems[k].selected = result.lineItems[k].selected
                /\ IsPrefix(result.lineItems[k].description, result'.lineItems[k].description)
                /\ k < Len(result.lineItems) =>
                      result'.lineItems[k].description = result.lineItems[k].description
          /\ Len(result'.lineItems) > Len(result.lineItems) =>
                AtScan /\ IsAccepted(CurLine)]_vars
    /\ [](pc = "fallback" =>
             \E acc \in {AcceptedLines(lines)} :
                /\ Len(result.lineItems) = Len(acc)
                /\ \A k \in 1..Len(acc) :
                      /\ Some(result.lineItems[k].amount) = CandidateAmount(acc[k])
                      /\ IsPrefix(itemDescription(acc[k], matchAllMoney(acc[k], 0)),
                                  result.lineItems[k].description))
    /\ [](pc = "done" =>
             \A k \in 1..Len(result.lineItems) :
                /\ Len(result.lineItems[k].description) > 0
                /\ result.lineItems[k].selected = FALSE)

\* a call has returned two items in the order of their lines, the second with
\* a continuation line appended to its description
C18_Witness ==
    /\ pc = "done"
    /\ Len(lines) = 3
    /\ IsAccepted(lines[1])
    /\ IsAccepted(lines[2])
    /\ ~IsAccepted(lines[3])
    /\ Len(result.lineItems) = 2
    /\ Some(result.lineItems[1].amount) = CandidateAmount(lines[1])
    /\ Some(result.lineItems[2].amount) = CandidateAmount(lines[2])
    /\ result.lineItems[1].amount # result.lineItems[2].amount
    /\ result.lineItems[2].description =
          itemDescription(lines[2], matchAllMoney(lines[2], 0)) \o <<" ">> \o lines[3]

----------------------------------------------------------------------------
(* C19 *)

\* some line of ls is classified into field, with a candidate amount
SomeClassified(field, ls) == \E k \in 1..Len(ls) : FieldOf(ls[k]) = field

\* some line of ls is classified into field with the candidate amount 0
ZeroClassified(field, ls) ==
    \E k \in 1..Len(ls) : FieldOf(ls[k]) = field /\ CandidateAmount(ls[k]) = Some(0)

\* C19: in the record returned subtotal is present exactly when a retained
\* line was classified subtotal-like with a candidate amount, tax exactly when
\* one was classified tax-like with a candidate amount, total exactly when one
\* was classified total-like with a candidate amount or there is an item.  A
\* field is 0 only when a line gave it the amount 0 or, for total, when it is
\* the sum of the items; a total line of amount 0, being the last total line,
\* gives the total 0, present.
C19_PresentWhenFound ==
    pc = "done" =>
        /\ IsSome(result.subtotal) <=> SomeClassified("subtotal", lines)
        /\ IsSome(result.tax) <=> SomeClassified("tax", lines)
        /\ IsSome(result.total) <=>
              (SomeClassified("total", lines) \/ Len(result.lineItems) > 0)
        /\ result.subtotal = Some(0) => ZeroClassified("subtotal", lines)
        /\ result.tax = Some(0) => ZeroClassified("tax", lines)
        /\ result.total = Some(0) =>
              \/ ZeroClassified("total", lines)
              \/ ~SomeClassified("total", lines) /\ ItemCents(result.lineItems) = 0
        /\ LastClassified("total", lines) = Some(0) => result.total = Some(0)

\* a call has returned the total 0 of its line "TOTAL 0.00", with an item,
\* and no subtotal and no tax
C19_Witness ==
    /\ pc = "done"
    /\ LastClassified("total", lines) = Some(0)
    /\ result.total = Some(0)
    /\ Len(result.lineItems) >= 1
    /\ ItemCents(result.lineItems) > 0
    /\ result.subtotal = None
    /\ result.tax = None

----------------------------------------------------------------------------
(* C11 *)

\* combined after the first n pages of the file f
RECURSIVE combinedUpTo(_, _)
combinedUpTo(f, n) ==
    IF n = 0 THEN <<>> ELSE addPage(combinedUpTo(f, n - 1), n - 1, f.pages[n])

\* the complete text of the file f: what extractTextFromFile resolves with when
\* every page has been recognised
completeText(f) ==
    IF isPdf(f) THEN trim(combinedUpTo(f, Len(f.pages))) ELSE f.pages[1]

\* the call r of handleProcess
Run(r) == runs[r]

\* C11: a call of handleProcess calls the parser only in the step in which it
\* goes on after extractTextFromFile has resolved, and with the complete text
\* of its file.  A call whose extraction was rejected, at whatever await, has
\* not called the parser and has set neither rawText nor parsed; the step in
\* which it goes on after the rejection writes the stage "error" and leaves
\* rawText and parsed alone, and it writes nothing after that: the stage it
\* wrote last is "error".
C11_ParseAfterExtraction ==
    /\ [](\A r \in 1..Len(runs) :
             /\ IsSome(Run(r).parserArg) =>
                   /\ ~Run(r).rejected
                   /\ Run(r).pc = "settled"
                   /\ Run(r).parserArg = Some(completeText(Run(r).file))
             /\ Run(r).rejected =>
                   /\ Run(r).parserArg = None
                   /\ ~Run(r).wroteRawText
                   /\ ~Run(r).wroteParsed
                   /\ Run(r).pc \in {"settling", "settled"}
                   /\ Run(r).pc = "settled" => Run(r).last = "error")
    /\ [][\A r \in 1..Len(runs) :
             /\ (Run(r).pc = "settling" /\ Run(r).rejected /\ runs'[r] # Run(r)) =>
                   /\ runs'[r].pc = "settled"
                   /\ ocrProgress' = Some("error")
                   /\ rawText' = rawText
                   /\ parsed' = parsed
             /\ (Run(r).pc = "settling" /\ ~Run(r).rejected /\ runs'[r] # Run(r)) =>
                   /\ Run(r).text = completeText(Run(r).file)
                   /\ runs'[r].parserArg = Some(Run(r).text)
                   /\ rawText' = Run(r).text
             /\ Run(r).pc # "settling" => runs'[r].parserArg = Run(r).parserArg
             /\ Run(r).pc = "settled" => runs'[r] = Run(r)]_vars

\* a call for the two-page PDF has ended in its catch block: the recognition
\* of the second page was rejected after the first page had been added to
\* combined, the worker was terminated, no text and no record were set
C11_Witness ==
    /\ Len(runs) >= 1
    /\ Run(1).pc = "settled"
    /\ Run(1).rejected
    /\ isPdf(Run(1).file)
    /\ Run(1).page = 1
    /\ Len(Run(1).combined) > 0
    /\ Run(1).worker = "terminated"
    /\ Run(1).last = "error"
    /\ ocrProgress = Some("error")
    /\ Run(1).parserArg = None
    /\ rawText = <<>>
    /\ parsed = None

----------------------------------------------------------------------------
(* C12 *)

\* the sum of the amounts of those of the first k items that are selected
RECURSIVE SumSelected(_, _)
SumSelected(items, k) ==
    IF k = 0 THEN 0
    ELSE SumSelected(items, k - 1) + (IF items[k].selected THEN items[k].amount ELSE 0)

\* the selected flags of a sequence of items
Flags(items) == [k \in 1..Len(items) |-> items[k].selected]

\* C12: the selected total shown is the sum of the amounts of exactly the items
\* whose selected flag is true (0 without a record).  toggleItem(index, checked)
\* gives the record with the flag of the item at index set to checked and
\* nothing else changed, and the record itself for an index outside the items;
\* onToggleAll(checked) sets every flag to checked and nothing else of the
\* record.  So a step that changes the record shown while no call of
\* handleProcess moves keeps the number, order, descriptions and amounts of the
\* items, vendor, date, subtotal, tax, total, and the raw text.
C12_SelectedTotal ==
    /\ [](selectedTotal(parsed) =
             IF IsSome(parsed)
             THEN SumSelected(Get(parsed).lineItems, Len(Get(parsed).lineItems))
             ELSE 0)
    /\ [](IsSome(parsed) =>
             \A checked \in BOOLEAN :
                /\ \A index \in -1..Len(Get(parsed).lineItems) :
                      toggleItem(parsed, index, checked) =
                         IF index \in 0..(Len(Get(parsed).lineItems) - 1)
                         THEN Some([Get(parsed) EXCEPT !.lineItems[index + 1].selected = checked])
                         ELSE parsed
                /\ \E all \in {Get(toggleAll(parsed, checked))} :
                      /\ [all EXCEPT !.lineItems = Get(parsed).lineItems] = Get(parsed)
                      /\ Priced(all.lineItems) = Priced(Get(parsed).lineItems)
                      /\ \A k \in 1..Len(all.lineItems) : all.lineItems[k].selected = checked)
    /\ [][(IsSome(parsed) /\ runs' = runs /\ file' = file /\ IsSome(parsed')) =>
             /\ [Get(parsed') EXCEPT !.lineItems = Get(parsed).lineItems] = Get(parsed)
             /\ Priced(Get(parsed').lineItems) = Priced(Get(parsed).lineItems)
             /\ rawText' = rawText
             /\ \/ Cardinality({k \in 1..Len(Get(parsed).lineItems) :
                      Get(parsed').lineItems[k].selected # Get(parsed).lineItems[k].selected}) <= 1
                \/ \E checked \in BOOLEAN :
                      /\ selectAll' = checked
                      /\ \A k \in 1..Len(Get(parsed').lineItems) :
                            Get(parsed').lineItems[k].selected = checked]_vars

\* after Select all and the unchecking of the first row: of the three items of
\* the record shown the first is not selected, the others are, and the total
\* shown is the sum of the amounts of these two
C12_Witness ==
    /\ IsSome(parsed)
    /\ selectAll
    /\ Len(Get(parsed).lineItems) = 3
    /\ Flags(Get(parsed).lineItems) = <<FALSE, TRUE, TRUE>>
    /\ Get(parsed).lineItems[1].amount > 0
    /\ selectedTotal(parsed) = Get(parsed).lineItems[2].amount + Get(parsed).lineItems[3].amount

----------------------------------------------------------------------------
(* C20 *)

\* C20: whenever a record is shown, it was made from the file that is selected:
\* a call of handleProcess begun for a file that has been replaced since writes
\* neither its text nor its record into the state of the page.
C20_ParsedOfCurrentFile ==
    /\ [](IsSome(parsed) => parsedOf = file)
    /\ [][\A r \in 1..Len(runs) :
             (Run(r).pc = "settling" /\ file # Some(Run(r).file) /\ runs'[r] # Run(r)) =>
                 /\ rawText' = rawText
                 /\ parsed' = parsed]_vars

\* the call r is inside a call of extractTextFromImageBlob, between
\* createWorker having resolved and w.terminate() having settled
InTry(r) == Run(r).pc \in {"initialize", "recognize", "terminate"}

\* the call r is at the OCR of its images: inside a call of
\* extractTextFromImageBlob or about to make the next one
AtOcr(r) == Run(r).pc \in {"import", "createWorker"} \/ InTry(r)

\* the workers among ws that are alive
Alive(ws) == {k \in 1..Len(ws) : ws[k] = "live"}

\* the workers among ws that were created before the newest one
Earlier(ws) == 1..(Len(ws) - 1)

====
